---- MODULE Spec2Model ----
(***************************************************************************)
(* Model of provstore-upload.py: the resumable upload of a local backup of *)
(* provenance documents (meta.csv + content files) to a ProvStore server,  *)
(* with the resume ledger status.csv.  One run of the script is a walk of  *)
(* pc through  auth -> meta -> load -> row/open/post/resp -> finally ->    *)
(* write -> done; several runs share the manifest, the ledger file and the *)
(* server.                                                                 *)
(***************************************************************************)
EXTENDS Integers, Sequences, FiniteSets, TLC

\* ---------------------------------------------------------------- bounds
MaxRows == 2        \* rows of meta.csv
MaxLedger == 1      \* well-formed rows of the status.csv found by the first run
MaxRuns == 2        \* invocations of the script

\* ---------------------------------------------------------------- values
Ids == {"a", "b"}

\* kinds of meta.csv row: "ok" is delivered by the csv reader (a row that
\* lacks the filename column is delivered too, and fails in OpenFile); "bad"
\* makes the reader raise while the row is being fetched (e.g. a field over
\* the csv field size limit)
RowKinds == {"ok", "bad"}

Rows == [id : Ids, kind : RowKinds]

\* outcomes.  An in-memory remote id is the JSON integer of the response
\* (tag "int"); in status.csv it is its decimal text (tag "str").
Error == [tag |-> "Error", n |-> 0]
NotFound == [tag |-> "NotFound", n |-> 0]
RemoteInt(n) == [tag |-> "int", n |-> n]
RemoteText(n) == [tag |-> "str", n |-> n]

\* a line of status.csv: a well-formed (old_id, new_id) row, or a row whose
\* reading raises
Line(k, v) == [old_id |-> k, new_id |-> v, bad |-> FALSE]
BadLine == [old_id |-> "a", new_id |-> Error, bad |-> TRUE]

InitLines == {Line("a", Error), Line("b", RemoteText(0)), BadLine}

SeqsUpTo(S, n) == UNION {[1..m -> S] : m \in 0..n}

NoFile == [exists |-> FALSE, rows |-> <<>>]
FileOf(rows) == [exists |-> TRUE, rows |-> rows]

\* the status.csv the first run may find: none, up to n well-formed rows, or
\* up to n well-formed rows followed by a row whose reading raises (what
\* follows that row is never read)
InitFiles(n) ==
    LET good == SeqsUpTo(InitLines \ {BadLine}, n) IN
    {NoFile} \cup {FileOf(g) : g \in good} \cup {FileOf(Append(g, BadLine)) : g \in good}

\* --------------------------------------------------- ordered dictionaries
\* statuses is an OrderedDict: a sequence of <<key, value>> with distinct keys
Keys(d) == {d[j][1] : j \in 1..Len(d)}

Get(d, k) == LET j == CHOOSE j \in 1..Len(d) : d[j][1] = k IN d[j][2]

\* variant: a new key is inserted at the front
PutFront(d, k, v) ==
    IF k \in Keys(d)
    THEN [j \in 1..Len(d) |-> IF d[j][1] = k THEN <<k, v>> ELSE d[j]]
    ELSE <<<<k, v>>>> \o d

\* d[k] = v : replace in place when the key is present, else append
Put(d, k, v) ==
    IF k \in Keys(d)
    THEN [j \in 1..Len(d) |-> IF d[j][1] = k THEN <<k, v>> ELSE d[j]]
    ELSE Append(d, <<k, v>>)

\* variant: an id recorded as Error or NotFound counts as unresolved
IsResolvedRetryFailed(d, k) == k \in Keys(d) /\ Get(d, k).tag \notin {"Error", "NotFound"}

\* row['id'] in statuses
IsResolved(d, k) == k \in Keys(d)

\* csv.writer formats every cell with str()
ToText(v) == IF v.tag = "int" THEN RemoteText(v.n) ELSE v

\* variant: the first entry is not written
SerializeDropFirst(d) == [j \in 1..(Len(d) - 1) |-> Line(d[j + 1][1], ToText(d[j + 1][2]))]

\* writer.writerows(statuses.items())
Serialize(d) == [j \in 1..Len(d) |-> Line(d[j][1], ToText(d[j][2]))]

VARIABLES
    manifest,      \* meta.csv: sequence of Rows (never written by the script)
    file,          \* status.csv on disk
    nextRemote,    \* server: next document id it will assign
    pc,            \* position of the current run
    statuses,      \* the in-memory ledger
    k,             \* index of the status.csv row being loaded
    i,             \* index of the meta.csv row being handled
    cur,           \* the entry being handled: what happened to it so far
    pending,       \* exception propagating through the finally block
    exit,          \* how the last run ended: "ok" (status 0), "noauth" and
                   \* "nometa" (SystemExit), "exc" and "kbd" (traceback)
    run,           \* number of runs started
    fileAtStart,   \* history: status.csv when the current run started
    loaded,        \* history: statuses when the loop was entered
    events,        \* history: what happened to each row handled in this run
    accepted,      \* history: POSTs accepted by the server, per id, all runs
    intrAt,        \* history: phases in which the operator interrupted this run
    persists,      \* history: times the persist step was entered in this run
    prev           \* history: summary of the previous run

vars == <<manifest, file, nextRemote, pc, statuses, k, i, cur, pending, exit,
          run, fileAtStart, loaded, events, accepted, intrAt, persists, prev>>

env == <<manifest, nextRemote, accepted>>
hist == <<fileAtStart, loaded, events, intrAt, persists, prev>>

NoCur == [id |-> "a", row |-> 0, file |-> "none", post |-> "none", rid |-> 0,
          parse |-> "none", rec |-> FALSE, out |-> Error]

NoPrev == [exit |-> "none", intrAt |-> {}, n |-> 0, file |-> NoFile]

Init ==
    /\ manifest \in SeqsUpTo(Rows, MaxRows)
    /\ file \in InitFiles(MaxLedger)
    /\ nextRemote = 1
    /\ pc = "done"
    /\ statuses = <<>>
    /\ k = 1
    /\ i = 1
    /\ cur = NoCur
    /\ pending = "none"
    /\ exit = "none"
    /\ run = 0
    /\ fileAtStart = file
    /\ loaded = <<>>
    /\ events = <<>>
    /\ accepted = [id \in Ids |-> 0]
    /\ intrAt = {}
    /\ persists = 0
    /\ prev = NoPrev

\* -------------------------------------------------------------- one run
\* the script is started (again) on the same backup folder and server
StartRun ==
    /\ pc = "done"
    /\ run < MaxRuns
    /\ run' = run + 1
    /\ pc' = "auth"
    /\ statuses' = <<>>
    /\ k' = 1
    /\ i' = 1
    /\ cur' = NoCur
    /\ pending' = "none"
    /\ exit' = "none"
    /\ fileAtStart' = file
    /\ loaded' = <<>>
    /\ events' = <<>>
    /\ intrAt' = {}
    /\ persists' = 0
    /\ prev' = [exit |-> exit, intrAt |-> intrAt, n |-> Len(events), file |-> file]
    /\ UNCHANGED <<env, file>>

\* r = requests.get(api_base_url + 'me'): r.ok
AuthOk ==
    /\ pc = "auth"
    /\ pc' = "meta"
    /\ UNCHANGED <<env, hist, file, statuses, k, i, cur, pending, exit, run>>

\* not r.ok: raise SystemExit
AuthFail ==
    /\ pc = "auth"
    /\ pc' = "done"
    /\ exit' = "noauth"
    /\ UNCHANGED <<env, hist, file, statuses, k, i, cur, pending, run>>

\* meta_filepath.exists()
MetaExists ==
    /\ pc = "meta"
    /\ pc' = "load"
    /\ UNCHANGED <<env, hist, file, statuses, k, i, cur, pending, exit, run>>

\* variant: the manifest check sits inside the try, so the finally block
\* writes status.csv before the process exits
MetaMissingPersists ==
    /\ pc = "meta"
    /\ pc' = "done"
    /\ exit' = "nometa"
    /\ file' = FileOf(Serialize(statuses))
    /\ UNCHANGED <<env, hist, statuses, k, i, cur, pending, run>>

\* not meta_filepath.exists(): raise SystemExit
MetaMissing ==
    /\ pc = "meta"
    /\ pc' = "done"
    /\ exit' = "nometa"
    /\ UNCHANGED <<env, hist, file, statuses, k, i, cur, pending, run>>

\* ------------------------------------------------------- loading status.csv
\* the loop is entered with whatever statuses holds
EnterLoop ==
    /\ pc' = "row"
    /\ i' = 1
    /\ loaded' = statuses'

\* for row in reader: statuses[row['old_id']] = row['new_id']
LoadRow ==
    /\ pc = "load"
    /\ file.exists
    /\ k <= Len(file.rows)
    /\ ~file.rows[k].bad
    /\ statuses' = Put(statuses, file.rows[k].old_id, file.rows[k].new_id)
    /\ k' = k + 1
    /\ UNCHANGED <<env, file, pc, i, cur, pending, exit, run, hist>>

\* except Exception: a warning, and the run goes on with what was read
LoadFail ==
    /\ pc = "load"
    /\ file.exists
    /\ k <= Len(file.rows)
    /\ file.rows[k].bad
    /\ statuses' = statuses
    /\ EnterLoop
    /\ UNCHANGED <<env, file, k, cur, pending, exit, run,
                   fileAtStart, events, intrAt, persists, prev>>

\* no status.csv, or its last row has been read
LoadDone ==
    /\ pc = "load"
    /\ ~file.exists \/ k > Len(file.rows)
    /\ statuses' = statuses
    /\ EnterLoop
    /\ UNCHANGED <<env, file, k, cur, pending, exit, run,
                   fileAtStart, events, intrAt, persists, prev>>

\* KeyboardInterrupt while status.csv is loaded: outside the try/finally
InterruptLoad ==
    /\ pc = "load"
    /\ pc' = "done"
    /\ exit' = "kbd"
    /\ intrAt' = intrAt \cup {"load"}
    /\ UNCHANGED <<env, file, statuses, k, i, cur, pending, run,
                   fileAtStart, loaded, events, persists, prev>>

\* ------------------------------------------------------------ the run loop
\* variant: the generic handler comes first and takes the missing file too
OutcomeGenericFirst(c) ==
    IF c.file \in {"missing", "fault"} THEN Error
    ELSE IF c.post \in {"netfault", "rejected"} THEN Error
    ELSE IF c.parse = "malformed" THEN Error
    ELSE RemoteInt(c.rid)

\* variant: the response is used without testing r.ok
OutcomeIgnoresStatus(c) ==
    IF c.file = "missing" THEN NotFound
    ELSE IF c.file = "fault" THEN Error
    ELSE IF c.post = "netfault" THEN Error
    ELSE IF c.parse = "malformed" THEN Error
    ELSE RemoteInt(c.rid)

\* the outcome the per-entry try/except records for what happened to an entry
Outcome(c) ==
    IF c.file = "missing" THEN NotFound
    ELSE IF c.file = "fault" THEN Error
    ELSE IF c.post \in {"netfault", "rejected"} THEN Error
    ELSE IF c.parse = "malformed" THEN Error
    ELSE RemoteInt(c.rid)

\* variant: the outcome is logged but not stored in statuses
RecordNoPut(c) ==
    LET d == [c EXCEPT !.rec = TRUE, !.out = Outcome(c)] IN
    /\ statuses' = statuses
    /\ events' = Append(events, d)
    /\ cur' = NoCur
    /\ i' = i + 1
    /\ pc' = "row"

\* statuses[row['id']] = outcome, and on to the next row
Record(c) ==
    LET d == [c EXCEPT !.rec = TRUE, !.out = Outcome(c)] IN
    /\ statuses' = Put(statuses, d.id, d.out)
    /\ events' = Append(events, d)
    /\ cur' = NoCur
    /\ i' = i + 1
    /\ pc' = "row"

\* the manifest is exhausted: on to the finally block
LoopEnd ==
    /\ pc = "row"
    /\ i > Len(manifest)
    /\ pc' = "finally"
    /\ UNCHANGED <<env, hist, file, statuses, k, i, cur, pending, exit, run>>

\* the csv reader raises while fetching the row: outside the per-entry try,
\* and not a KeyboardInterrupt, so it leaves the loop through the finally
RowUnreadable ==
    /\ pc = "row"
    /\ i <= Len(manifest)
    /\ manifest[i].kind = "bad"
    /\ pending' = "exc"
    /\ pc' = "finally"
    /\ UNCHANGED <<env, hist, file, statuses, k, i, cur, exit, run>>

\* variant: a skipped row is marked in the ledger
SkipRowMarks ==
    /\ pc = "row"
    /\ i <= Len(manifest)
    /\ manifest[i].kind # "bad"
    /\ IsResolved(statuses, manifest[i].id)
    /\ statuses' = Put(statuses, manifest[i].id, Error)
    /\ events' = Append(events, [NoCur EXCEPT !.id = manifest[i].id, !.row = i,
                                              !.file = "skip"])
    /\ i' = i + 1
    /\ UNCHANGED <<env, file, pc, k, cur, pending, exit, run,
                   fileAtStart, loaded, intrAt, persists, prev>>

\* if row['id'] in statuses: continue
SkipRow ==
    /\ pc = "row"
    /\ i <= Len(manifest)
    /\ manifest[i].kind # "bad"
    /\ IsResolved(statuses, manifest[i].id)
    /\ events' = Append(events, [NoCur EXCEPT !.id = manifest[i].id, !.row = i,
                                              !.file = "skip"])
    /\ i' = i + 1
    /\ UNCHANGED <<env, file, pc, statuses, k, cur, pending, exit, run,
                   fileAtStart, loaded, intrAt, persists, prev>>

\* variant: the per-entry try is entered without the membership test
BeginRowNoCheck ==
    /\ pc = "row"
    /\ i <= Len(manifest)
    /\ manifest[i].kind # "bad"
    /\ cur' = [NoCur EXCEPT !.id = manifest[i].id, !.row = i]
    /\ pc' = "open"
    /\ UNCHANGED <<env, hist, file, statuses, k, i, pending, exit, run>>

\* the row is not resolved: enter the per-entry try
BeginRow ==
    /\ pc = "row"
    /\ i <= Len(manifest)
    /\ manifest[i].kind # "bad"
    /\ ~IsResolved(statuses, manifest[i].id)
    /\ cur' = [NoCur EXCEPT !.id = manifest[i].id, !.row = i]
    /\ pc' = "open"
    /\ UNCHANGED <<env, hist, file, statuses, k, i, pending, exit, run>>

\* filepath = base_path / row['filename']; f.read(): the content is read,
\* or the file is missing, or anything else is raised (no filename, a
\* directory, an I/O error)
OpenFile ==
    /\ pc = "open"
    /\ \E res \in {"read", "missing", "fault"} :
        /\ LET c == [cur EXCEPT !.file = res] IN
           IF res = "read"
           THEN /\ cur' = c
                /\ pc' = "post"
                /\ UNCHANGED <<statuses, events, i>>
           ELSE Record(c)
    /\ UNCHANGED <<env, file, k, pending, exit, run,
                   fileAtStart, loaded, intrAt, persists, prev>>

\* r = requests.post(api_base_url + 'documents/'): raises, or the server
\* rejects it, or the server creates the document
Post ==
    /\ pc = "post"
    /\ \E res \in {"netfault", "rejected", "accepted"} :
        LET c == [cur EXCEPT !.post = res] IN
        IF res = "accepted"
        THEN /\ cur' = [c EXCEPT !.rid = nextRemote]
             /\ nextRemote' = nextRemote + 1
             /\ accepted' = [accepted EXCEPT ![cur.id] = @ + 1]
             /\ pc' = "resp"
             /\ UNCHANGED <<statuses, events, i>>
        ELSE /\ Record(c)
             /\ UNCHANGED <<nextRemote, accepted>>
    /\ UNCHANGED <<manifest, file, k, pending, exit, run,
                   fileAtStart, loaded, intrAt, persists, prev>>

\* response = r.json(); statuses[row['id']] = response['id']
Response ==
    /\ pc = "resp"
    /\ \E res \in {"ok", "malformed"} : Record([cur EXCEPT !.parse = res])
    /\ UNCHANGED <<env, file, k, pending, exit, run,
                   fileAtStart, loaded, intrAt, persists, prev>>

\* variant: the per-entry handler catches every exception, the interruption
\* included, records Error and goes on with the next row
InterruptLoopCaught ==
    /\ pc \in {"row", "open", "post", "resp"}
    /\ intrAt' = intrAt \cup {"loop"}
    /\ IF pc = "row"
       THEN /\ pc' = "intr"
            /\ UNCHANGED <<statuses, events, cur, i>>
       ELSE Record([cur EXCEPT !.parse = "malformed"])
    /\ UNCHANGED <<env, file, k, pending, exit, run,
                   fileAtStart, loaded, persists, prev>>

\* KeyboardInterrupt anywhere in the loop: not an Exception, so it passes the
\* per-entry handlers and reaches the outer except
InterruptLoop ==
    /\ pc \in {"row", "open", "post", "resp"}
    /\ pc' = "intr"
    /\ intrAt' = intrAt \cup {"loop"}
    /\ UNCHANGED <<env, file, statuses, k, i, cur, pending, exit, run,
                   fileAtStart, loaded, events, persists, prev>>

\* variant: the handler goes back to the loop
HandleInterruptResumes ==
    /\ pc = "intr"
    /\ pc' = "row"
    /\ UNCHANGED <<env, hist, file, statuses, k, i, cur, pending, exit, run>>

\* variant: the handler ends the process itself, without the finally block
HandleInterruptExits ==
    /\ pc = "intr"
    /\ pc' = "done"
    /\ exit' = "ok"
    /\ UNCHANGED <<env, hist, file, statuses, k, i, cur, pending, run>>

\* except KeyboardInterrupt: print('User interuption, exiting.')
HandleInterrupt ==
    /\ pc = "intr"
    /\ pc' = "finally"
    /\ UNCHANGED <<env, hist, file, statuses, k, i, cur, pending, exit, run>>

\* ------------------------------------------------------------ the persist
\* finally: status_filepath.open('w') truncates status.csv
PersistOpen ==
    /\ pc = "finally"
    /\ file' = FileOf(<<>>)
    /\ persists' = persists + 1
    /\ pc' = "write"
    /\ UNCHANGED <<env, statuses, k, i, cur, pending, exit, run,
                   fileAtStart, loaded, events, intrAt, prev>>

\* the header and writer.writerows(statuses.items()); the file is closed and
\* the pending exception, if any, ends the process
PersistWrite ==
    /\ pc = "write"
    /\ file' = FileOf(Serialize(statuses))
    /\ pc' = "done"
    /\ exit' = IF pending = "exc" THEN "exc" ELSE "ok"
    /\ UNCHANGED <<env, hist, statuses, k, i, cur, pending, run>>

\* KeyboardInterrupt inside the finally block, before or after the truncation
InterruptPersist ==
    /\ pc \in {"finally", "write"}
    /\ intrAt' = intrAt \cup {pc}
    /\ pc' = "done"
    /\ exit' = "kbd"
    /\ UNCHANGED <<env, file, statuses, k, i, cur, pending, run,
                   fileAtStart, loaded, events, persists, prev>>

\* the status the process ends with: 0 at the end of the script, 1 for a
\* SystemExit with a message or an uncaught exception, 130 for an uncaught
\* KeyboardInterrupt
ExitStatus(e) ==
    IF e = "ok" THEN 0
    ELSE IF e = "kbd" THEN 130
    ELSE 1

Next ==
    \/ StartRun
    \/ AuthOk
    \/ AuthFail
    \/ MetaExists
    \/ MetaMissing
    \/ LoadRow
    \/ LoadFail
    \/ LoadDone
    \/ InterruptLoad
    \/ LoopEnd
    \/ RowUnreadable
    \/ SkipRow
    \/ BeginRow
    \/ OpenFile
    \/ Post
    \/ Response
    \/ InterruptLoop
    \/ HandleInterrupt
    \/ PersistOpen
    \/ PersistWrite
    \/ InterruptPersist

Spec == Init /\ [][Next]_vars

\* the steps of the script itself (every call it makes returns or fails);
\* starting a run and interrupting it are up to the operator
RunStep ==
    \/ AuthOk
    \/ AuthFail
    \/ MetaExists
    \/ MetaMissing
    \/ LoadRow
    \/ LoadFail
    \/ LoadDone
    \/ LoopEnd
    \/ RowUnreadable
    \/ SkipRow
    \/ BeginRow
    \/ OpenFile
    \/ Post
    \/ Response
    \/ HandleInterrupt
    \/ PersistOpen
    \/ PersistWrite

TypeOK ==
    /\ pc \in {"auth", "meta", "load", "row", "open", "post", "resp", "intr",
               "finally", "write", "done"}
    /\ exit \in {"none", "ok", "exc", "noauth", "nometa", "kbd"}
    /\ run \in 0..MaxRuns
    /\ Len(statuses) = Cardinality(Keys(statuses))

\* ------------------------------------------------------------ properties
\* the well-formed rows of a status.csv as <<old_id, new_id>> pairs
FileDict(f) == [j \in 1..Len(f.rows) |-> <<f.rows[j].old_id, f.rows[j].new_id>>]

\* the current run has issued a document-creation POST for row j / at all
Posted(e) == e.post # "none"
PostedRows == {events[j].row : j \in {j \in 1..Len(events) : Posted(events[j])}}
                 \cup (IF Posted(cur) THEN {cur.row} ELSE {})

\* the previous run went from the checks to the end of the persist without
\* being interrupted
PrevComplete == prev.exit \in {"ok", "exc"} /\ prev.intrAt = {}
ThisComplete == pc = "done" /\ exit \in {"ok", "exc"} /\ intrAt = {}

\* C1: when a run follows a run that went to completion and persisted its
\* ledger, it issues no document-creation POST, and if it also goes to
\* completion every id of the ledger persisted by the first run has the same
\* outcome in the ledger persisted by the second.
C1_Idempotence ==
    PrevComplete =>
        /\ PostedRows = {}
        /\ ThisComplete =>
              \A id \in Keys(FileDict(prev.file)) :
                  /\ id \in Keys(FileDict(file))
                  /\ Get(FileDict(file), id) = Get(FileDict(prev.file), id)

\* a second complete run over a ledger in which the first run recorded an
\* assigned id, skipping that row
C1_Witness ==
    /\ PrevComplete
    /\ ThisComplete
    /\ \E j \in 1..Len(events) : events[j].file = "skip"
    /\ \E id \in Ids : accepted[id] = 1 /\ id \in Keys(FileDict(file))
                       /\ Get(FileDict(file), id).tag = "str"
                       /\ Get(FileDict(file), id).n > 0

\* C2: over runs that complete or are interrupted inside the loop (the POST in
\* flight or just accepted included), the server accepts at most one
\* document-creation POST for each manifest id.
C2_NoDuplicateUploads ==
    (prev.exit \in {"none", "ok"} /\ prev.intrAt \subseteq {"loop"}
        /\ intrAt \subseteq {"loop"}) =>
            \A id \in Ids : accepted[id] <= 1

\* C3: when a run interrupted in the loop after N entries has persisted, the
\* ledger file holds the loaded entries followed by the outcomes of exactly
\* those N entries in manifest order; the next run issues POSTs for rows after
\* N only and skips rows 1..N.
FirstRow(id) == CHOOSE j \in 1..Len(manifest) :
                   manifest[j].id = id /\ \A h \in 1..(j - 1) : manifest[h].id # id

RunEnded == pc = "done" /\ exit \notin {"none", "noauth", "nometa"}

C5_FatalNoMutation ==
    (pc = "done" /\ exit \in {"noauth", "nometa"}) =>
        /\ file = fileAtStart
        /\ PostedRows = {}
        /\ persists = 0
        /\ events = <<>>

\* the second run finds no meta.csv and leaves the ledger of the first alone
C5_Witness ==
    /\ pc = "done"
    /\ exit = "nometa"
    /\ prev.exit = "ok"
    /\ Len(file.rows) >= 1

\* C6: at the end of a run that passed the checks and was not interrupted,
\* the id of every row the reader could deliver is in the persisted ledger
\* (the claim asks this of every row of the manifest).
C6_Isolation ==
    (RunEnded /\ intrAt = {}) =>
        \A j \in 1..Len(manifest) :
            manifest[j].kind # "bad" => manifest[j].id \in Keys(FileDict(file))

\* C7: at the end of a run that persisted, every id whose POST the server
\* accepted in this run (and whose response was not malformed) is in the
\* persisted ledger with the identifier the server assigned.
AcceptedEntries == {events[j] : j \in {j \in 1..Len(events) : events[j].post = "accepted"}}
                      \cup (IF cur.post = "accepted" THEN {cur} ELSE {})

C7_Completeness ==
    (pc = "done" /\ exit = "ok") =>
        \A e \in AcceptedEntries :
            e.parse # "malformed" =>
                /\ e.id \in Keys(FileDict(file))
                /\ Get(FileDict(file), e.id) = RemoteText(e.rid)

\* C8: every entry recorded in this run has NotFound exactly when its file
\* was missing, Error when anything else failed, the assigned id when the POST
\* was accepted and parsed; that outcome is what statuses holds, and the rows
\* are taken one after the other.
C8_Classification ==
    /\ \A j \in 1..Len(events) :
          LET e == events[j] IN
          /\ e.row = j
          /\ e.rec =>
                /\ (e.out = NotFound) <=> (e.file = "missing")
                /\ (e.file = "fault" \/ e.post \in {"netfault", "rejected"}
                       \/ e.parse = "malformed") => e.out = Error
                /\ (e.post = "accepted" /\ e.parse = "ok") => e.out = RemoteInt(e.rid)
                /\ e.out \in {NotFound, Error, RemoteInt(e.rid)}
                /\ e.id \in Keys(statuses)
                /\ Get(statuses, e.id) = e.out
    /\ pc \in {"row", "open", "post", "resp"} => i = Len(events) + 1

\* one entry uploaded and one entry whose file is missing, in the same run
C8_Witness ==
    /\ Len(events) = 2
    /\ events[1].out.tag = "int"
    /\ events[2].out = NotFound
    /\ pc = "done"
    /\ exit = "ok"

\* C9: a step taken on a row whose id is a key of statuses (other than the
\* operator's interruption) changes neither statuses nor the server and moves
\* to the next row; and no row posted in a run has an id the run loaded,
\* whatever outcome was loaded for it.
C9_Step ==
    /\ (/\ pc = "row"
        /\ i <= Len(manifest)
        /\ manifest[i].kind # "bad"
        /\ manifest[i].id \in Keys(statuses)
        /\ pc' # "intr") =>
           /\ statuses' = statuses
           /\ accepted' = accepted
           /\ nextRemote' = nextRemote
           /\ cur' = cur
           /\ pc' = "row"
           /\ i' = i + 1
    /\ \A r \in PostedRows' : manifest'[r].id \notin Keys(loaded')

C9_SkipNoEffect == [][C9_Step]_vars

\* the second run skips a row that the first run recorded as NotFound
C9_Witness ==
    /\ prev.exit = "ok"
    /\ prev.n >= 1
    /\ accepted = [id \in Ids |-> 0]
    /\ \E j \in 1..Len(events) :
          /\ events[j].file = "skip"
          /\ events[j].id \in Keys(loaded)
          /\ Get(loaded, events[j].id) = NotFound

\* C10: in one run no id has POSTs from two rows, and no row is posted whose
\* id was resolved when the loop started.
C10_AtMostOnePost ==
    /\ \A r1, r2 \in PostedRows : manifest[r1].id = manifest[r2].id => r1 = r2
    /\ \A r \in PostedRows : manifest[r].id \notin Keys(loaded)

\* the same id in two rows: the first is posted, the second skipped
C10_Witness ==
    /\ Len(events) = 2
    /\ events[1].post # "none"
    /\ events[2].file = "skip"
    /\ events[1].id = events[2].id
    /\ loaded = <<>>

\* the run is in, or has gone through, the run loop
InLoop == pc \in {"row", "open", "post", "resp", "intr", "finally", "write"}

\* reading the status.csv raises at some row
Corrupt(f) == f.exists /\ \E j \in 1..Len(f.rows) : f.rows[j].bad

\* C11: when the status.csv found by a run is corrupt, the run enters the loop
\* with an empty ledger mapping.
C11_CorruptLedgerEmpty == (InLoop /\ Corrupt(fileAtStart)) => loaded = <<>>

\* C12: at every point of a run status.csv holds either the complete ledger
\* the run found or the complete ledger the run writes.
C12_AtomicPersist ==
    run > 0 => file \in {fileAtStart, FileOf(Serialize(statuses))}

\* C13: the step on which the operator interrupts the loop, and every later
\* step of that run, records nothing, posts nothing and takes no further row;
\* the entry that was being handled is not in the ledger.
C13_Step ==
    /\ ("loop" \notin intrAt /\ "loop" \in intrAt') =>
          /\ pc' = "intr"
          /\ statuses' = statuses
          /\ events' = events
          /\ accepted' = accepted
    /\ ("loop" \in intrAt /\ pc # "done") =>
          /\ statuses' = statuses
          /\ events' = events
          /\ accepted' = accepted
          /\ nextRemote' = nextRemote
          /\ i' = i
          /\ cur' = cur
          /\ pc' \in {"finally", "write", "done"}
    /\ ("loop" \in intrAt' /\ cur'.row # 0) =>
          /\ ~cur'.rec
          /\ cur'.id \notin Keys(statuses')

C13_InterruptStopsLoop == [][C13_Step]_vars

\* interrupted while the second entry's accepted POST was being handled: the
\* run persisted the first entry only
C13_Witness ==
    /\ pc = "done"
    /\ exit = "ok"
    /\ intrAt = {"loop"}
    /\ Len(events) = 1
    /\ events[1].rec
    /\ cur.row = 2
    /\ cur.post = "accepted"
    /\ Len(file.rows) = 1

\* C14: in the loop each id is written to statuses at most once and never an
\* id the run loaded; every loaded pair stays in statuses with its outcome and
\* is in the ledger file the run persists.
C14_AppendOnly ==
    /\ \A j \in 1..Len(events) :
          events[j].rec =>
              /\ events[j].id \notin Keys(loaded)
              /\ \A h \in 1..Len(events) :
                    (events[h].rec /\ events[h].id = events[j].id) => h = j
    /\ \A j \in 1..Len(loaded) :
          /\ loaded[j][1] \in Keys(statuses)
          /\ Get(statuses, loaded[j][1]) = loaded[j][2]
    /\ (pc = "done" /\ exit \in {"ok", "exc"}) =>
          \A j \in 1..Len(loaded) :
              /\ loaded[j][1] \in Keys(FileDict(file))
              /\ Get(FileDict(file), loaded[j][1]) = loaded[j][2]

\* the second run loaded an entry, recorded a new one and persisted both
C14_Witness ==
    /\ pc = "done"
    /\ exit = "ok"
    /\ prev.exit = "ok"
    /\ Len(loaded) = 1
    /\ \E j \in 1..Len(events) : events[j].rec
    /\ \E j \in 1..Len(events) : events[j].file = "skip"
    /\ Len(file.rows) = 2

\* C15: the persisted file lists the loaded entries first, in the order of
\* their first row in the file the run read, then the entries recorded in this
\* run in the order of their manifest rows; the server receives the POSTs of a
\* run in manifest order.
IsRec(e) == e.rec

FirstLine(f, id) == CHOOSE j \in 1..Len(f.rows) :
                       /\ f.rows[j].old_id = id
                       /\ \A h \in 1..(j - 1) : f.rows[h].old_id # id

C15_PersistedOrder ==
    /\ (pc = "done" /\ exit \in {"ok", "exc"}) =>
          LET L == Len(loaded)
              new == SelectSeq(events, IsRec) IN
          /\ Len(file.rows) = L + Len(new)
          /\ \A j \in 1..L :
                /\ file.rows[j].old_id = loaded[j][1]
                /\ file.rows[j].new_id = loaded[j][2]
          /\ \A m \in 1..Len(new) :
                /\ file.rows[L + m].old_id = new[m].id
                /\ file.rows[L + m].new_id = ToText(new[m].out)
                /\ \A h \in 1..(m - 1) : new[h].row < new[m].row
    /\ \A p, q \in 1..Len(loaded) :
          p < q => FirstLine(fileAtStart, loaded[p][1]) < FirstLine(fileAtStart, loaded[q][1])
    /\ \A e1, e2 \in AcceptedEntries : e1.row < e2.row => e1.rid < e2.rid
    /\ \A j \in 1..Len(events) : cur.row # 0 => events[j].row < cur.row

\* the second run loaded the entry the first run wrote and recorded another
\* id after it
C15_Witness ==
    /\ pc = "done"
    /\ exit = "ok"
    /\ prev.exit = "ok"
    /\ Len(loaded) = 1
    /\ Len(SelectSeq(events, IsRec)) = 1
    /\ Len(file.rows) = 2
    /\ file.rows[2].new_id.tag = "str"
    /\ file.rows[1].old_id # file.rows[2].old_id

\* C16: a run that is interrupted, if at all, only in the loop ends with a
\* non-zero status exactly when the authentication failed or meta.csv is
\* missing, and with status zero, after persisting, otherwise.
C16_ExitStatus ==
    (pc = "done" /\ run > 0 /\ intrAt \subseteq {"loop"}) =>
        /\ (ExitStatus(exit) # 0) <=> (exit \in {"noauth", "nometa"})
        /\ ExitStatus(exit) = 0 => persists = 1

\* C17: an uninterrupted run that passed the checks leaves the id of every
\* row the reader could deliver in the persisted ledger; and once a run has left such a ledger, the next
\* run issues no POST and ends with the same pairs in the file.
AllResolvedIn(f) ==
    \A j \in 1..Len(manifest) :
        manifest[j].kind # "bad" => manifest[j].id \in Keys(FileDict(f))

C17_Convergence ==
    /\ ThisComplete => AllResolvedIn(file)
    /\ (prev.exit \in {"ok", "exc"} /\ AllResolvedIn(fileAtStart)) =>
          /\ PostedRows = {}
          /\ pc = "done" => file = fileAtStart

\* C18: an entry recorded in this run with a remote id had exactly one POST
\* for its id in the run, accepted and answered with that id, which the
\* server did assign; an entry recorded as NotFound had no POST.
C18_OutcomeMatchesSent ==
    \A j \in 1..Len(events) :
        LET e == events[j]
            posts == {r \in PostedRows : manifest[r].id = e.id} IN
        e.rec =>
            /\ e.out.tag = "int" =>
                  /\ e.post = "accepted"
                  /\ e.parse = "ok"
                  /\ e.out.n = e.rid
                  /\ e.rid \in 1..(nextRemote - 1)
                  /\ posts = {e.row}
            /\ e.out = NotFound =>
                  /\ e.post = "none"
                  /\ posts = {}

\* a missing file first, an upload second
C18_Witness ==
    /\ Len(events) = 2
    /\ events[1].out = NotFound
    /\ events[1].rec
    /\ events[2].out = RemoteInt(events[2].rid)
    /\ events[2].rec
    /\ accepted[events[2].id] = 1

\* C19: a started run ends: every step of it lowers a natural-number rank
\* and, until it has ended, the script has a step to take; it probes the
\* authentication once, at its start, moves through the manifest forwards
\* only, and issues at most as many POSTs as the manifest has rows.
LoopRank == 4 * (Len(manifest) + 1 - i)
               + (CASE pc = "row" -> 3 [] pc = "open" -> 2 [] pc = "post" -> 1 [] OTHER -> 0)

LoadRank == Len(fileAtStart.rows) + 1 - k

Rank ==
    CASE pc = "done" -> 0
      [] pc = "write" -> 1
      [] pc = "finally" -> 2
      [] pc = "intr" -> 3
      [] pc \in {"row", "open", "post", "resp"} -> 4 + LoopRank
      [] pc = "load" -> 4 * Len(manifest) + 12 + LoadRank
      [] pc = "meta" -> 4 * Len(manifest) + 14 + Len(fileAtStart.rows)
      [] pc = "auth" -> 4 * Len(manifest) + 15 + Len(fileAtStart.rows)

C19_Bounded ==
    /\ Cardinality(PostedRows) <= Len(manifest)
    /\ i \in 1..(Len(manifest) + 1)
    /\ Rank \in Nat
    /\ pc # "done" => ENABLED RunStep

C19_Forward ==
    /\ pc # "done" => Rank' < Rank
    /\ pc' = "auth" => (pc = "done" /\ run' = run + 1)
    /\ pc = "auth" => pc' \in {"meta", "done"}
    /\ (pc \in {"row", "open", "post", "resp"} /\ pc' # "done") => i' \in {i, i + 1}

C19_Termination == [][C19_Forward /\ C19_Bounded']_vars

\* a run that handled every row of a full manifest, posting for each, ended
C19_Witness ==
    /\ pc = "done"
    /\ exit = "ok"
    /\ Len(manifest) = MaxRows
    /\ Cardinality(PostedRows) = Len(manifest)
    /\ intrAt = {}

====
